---- MODULE Spec2Model ----
(***************************************************************************)
(* PolyArt: the PolygonArtCanvas component (processing pipeline, refs,     *)
(* timers, animation frames) and its animation sequencer.                  *)
(*                                                                         *)
(* Eight specifications share the operators translated from the source:      *)
(*   Spec      the component's life cycle: effect runs, image loads, the   *)
(*             50 ms stage timeouts, animation frames, the shared refs;    *)
(*   SpecGeom  one run of the point sampler and the mesh refinement;       *)
(*   SpecAnim  one playback of animate() under a frame clock;              *)
(*   SpecTick  one playback of animate() under arbitrary timestamps.       *)
(*   SpecLoad  one image load, from img.onload to the point set handed to  *)
(*             triangulation;                                              *)
(*   SpecColor one call of getMedianColor;                                 *)
(*   SpecKey   calls of addPoint with points that lie close together;      *)
(*   SpecLive  SpecAnim with every requested frame eventually delivered.   *)
(*                                                                         *)
(* Times are milliseconds.  The speed multiplier is a positive rational    *)
(* <<n, d>>; a duration X / speed is compared by cross-multiplication, so  *)
(* every comparison of the source is decided exactly.  Coordinates are     *)
(* integers in units of 1 / Unit pixel; lengths are compared by their      *)
(* squares and areas by the cross product, in exact arithmetic.            *)
(***************************************************************************)
EXTENDS Integers, Sequences, FiniteSets, TLC

VARIABLES
  \* --- calls of addPoint on one pair (points, pointsMap)
  kPoints,       \* points / pointsMap
  kAsked,        \* history: the points addPoint was called with
  \* --- one image load followed to the point set handed to triangulation
  nNatural,      \* img.width, img.height
  nQuality,      \* quality
  nSize,         \* width, height after img.onload
  nPoints,       \* points / pointsMap
  nStage,        \* "loading", "read", "sobel", "handed", "crashed"
  \* --- one call of getMedianColor
  cImage,        \* width, height and the pixel data
  cTriangle,     \* p1, p2, p3
  cReads,        \* history: the data indices read, in order
  cColor,        \* the value returned
  cStage,        \* "call", "returned"
  \* --- one run of the sampler and the refinement, step by step
  gScene,        \* the image: width, height, quality, and its edge field
  gPoints,       \* points / pointsMap, then currentPoints
  gKinds,        \* history: the kinds of point stored so far
  gStage,        \* where the run is: "start", "cells", "refine", "triangles", "done"
  gCells,        \* base cells still to process, in loop order
  gPass,         \* pass of the refinement loop
  gN,            \* number of points Delaunator.from was given in this pass
  gLeft,         \* iterations over triangles still followed in this run
  gAdded,        \* added
  \* ---- component (Spec)
  props,         \* [src, quality, speed]: the props of the last render
  runs,          \* one record per execution of the effect (a "run")
  loads,         \* runs whose img.onload has not fired yet
  timers,        \* pending setTimeout callbacks, <<run, stage>>, in firing order
  frames,        \* pending requestAnimationFrame callbacks, <<id, run>>
  frameSeq,      \* last id handed out by requestAnimationFrame
  animationRef,  \* animationRef.current (0: null)
  status,        \* the status label
  dimensions,    \* the dimensions state, <<width, height>>
  trianglesRef,  \* run that produced trianglesRef.current (0: the initial [])
  sobelRef,      \* run that produced sobelRef.current (0: null)
  pointsRef,     \* run that produced pointsRef.current (0: the initial [])
  imageRef,      \* run whose image is imageRef.current (0: null)
  now,           \* the frame clock
  canvas,        \* the last frame painted on the visible canvas
  staleActs,     \* history: what runs did after a newer run had started
  \* ---- one playback (SpecAnim, SpecTick)
  aSpeed,        \* animationSpeed of the playback
  aStart,        \* startTime of the closure (Null before the first tick)
  aClock,        \* timestamp of the last tick
  aPhase,        \* phase rendered by the last tick
  aProgress,     \* progress computed by the last tick
  aPending,      \* a frame is requested
  aSeen,         \* history: phases rendered so far
  aMaxGap,       \* history: largest gap between two consecutive ticks
  aRegress       \* history: a tick rendered an earlier phase than its predecessor

lifeVars == <<props, runs, loads, timers, frames, frameSeq, animationRef, status,
              dimensions, trianglesRef, sobelRef, pointsRef, imageRef, now, canvas,
              staleActs>>
animVars == <<aSpeed, aStart, aClock, aPhase, aProgress, aPending, aSeen, aMaxGap,
              aRegress>>
geomVars == <<gScene, gPoints, gKinds, gStage, gCells, gPass, gN, gLeft, gAdded>>

loadVars == <<nNatural, nQuality, nSize, nPoints, nStage>>
colorVars == <<cImage, cTriangle, cReads, cColor, cStage>>
keyVars == <<kPoints, kAsked>>

vars == <<lifeVars, animVars, geomVars, loadVars, colorVars, keyVars>>

Null == -1

\* ------------------------------------------------------------------------
\* Bounds of the model
\* ------------------------------------------------------------------------
MaxRuns == 2
MaxNow == 26000
MaxClock == 26000
MaxTriangles == 2
MaxCalls == 3

\* ------------------------------------------------------------------------
\* animate(): phases, elapsed time, progress     (part_000 lines 360-552)
\* ------------------------------------------------------------------------
PHASE_IMAGE == 1500
PHASE_SOBEL == 2000
PHASE_POINTS == 2000
PHASE_LINES == 2500
PHASE_COLORS == 2500
PHASE_FADE_EDGES == 2000

totalDuration ==
  PHASE_IMAGE + PHASE_SOBEL + PHASE_POINTS + PHASE_LINES + PHASE_COLORS + PHASE_FADE_EDGES

Phases == <<"SourceImage", "EdgeVisualization", "PointCloud", "Wireframe",
            "ColorFill", "EdgeFadeOut", "Complete">>

PhaseIndex(p) == IF p = "none" THEN 0 ELSE CHOOSE i \in 1..Len(Phases) : Phases[i] = p

\* elapsed <= nominal / speed
BeforeOrAt(elapsed, nominal, sp) == elapsed * sp[1] <= nominal * sp[2]

\* elapsed < nominal / speed, with speed = sp[1] / sp[2]
Before(elapsed, nominal, sp) == elapsed * sp[1] < nominal * sp[2]

\* if (!startTime) startTime = timestamp;   (null and 0 are both falsy)
LatchStart(startTime, timestamp) ==
  IF startTime = Null \/ startTime = 0 THEN timestamp ELSE startTime

\* the if / else-if chain of animate
PhaseAtThresholdRepeated(elapsed, sp) ==
  IF Before(elapsed, PHASE_IMAGE, sp) THEN "SourceImage"
  ELSE IF Before(elapsed, PHASE_IMAGE + PHASE_SOBEL, sp) THEN "EdgeVisualization"
  ELSE IF Before(elapsed, PHASE_IMAGE + PHASE_SOBEL, sp) THEN "PointCloud"
  ELSE IF Before(elapsed, PHASE_IMAGE + PHASE_SOBEL + PHASE_POINTS + PHASE_LINES, sp)
    THEN "Wireframe"
  ELSE IF Before(elapsed,
                 PHASE_IMAGE + PHASE_SOBEL + PHASE_POINTS + PHASE_LINES + PHASE_COLORS, sp)
    THEN "ColorFill"
  ELSE IF Before(elapsed, totalDuration, sp) THEN "EdgeFadeOut"
  ELSE "Complete"

PhaseAtBranchFlipped(elapsed, sp) ==
  IF Before(elapsed, PHASE_IMAGE, sp) THEN "SourceImage"
  ELSE IF ~Before(elapsed, PHASE_IMAGE + PHASE_SOBEL, sp) THEN "EdgeVisualization"
  ELSE IF Before(elapsed, PHASE_IMAGE + PHASE_SOBEL + PHASE_POINTS, sp) THEN "PointCloud"
  ELSE IF Before(elapsed, PHASE_IMAGE + PHASE_SOBEL + PHASE_POINTS + PHASE_LINES, sp)
    THEN "Wireframe"
  ELSE IF Before(elapsed,
                 PHASE_IMAGE + PHASE_SOBEL + PHASE_POINTS + PHASE_LINES + PHASE_COLORS, sp)
    THEN "ColorFill"
  ELSE IF Before(elapsed, totalDuration, sp) THEN "EdgeFadeOut"
  ELSE "Complete"

PhaseAt(elapsed, sp) ==
  IF Before(elapsed, PHASE_IMAGE, sp) THEN "SourceImage"
  ELSE IF Before(elapsed, PHASE_IMAGE + PHASE_SOBEL, sp) THEN "EdgeVisualization"
  ELSE IF Before(elapsed, PHASE_IMAGE + PHASE_SOBEL + PHASE_POINTS, sp) THEN "PointCloud"
  ELSE IF Before(elapsed, PHASE_IMAGE + PHASE_SOBEL + PHASE_POINTS + PHASE_LINES, sp)
    THEN "Wireframe"
  ELSE IF Before(elapsed,
                 PHASE_IMAGE + PHASE_SOBEL + PHASE_POINTS + PHASE_LINES + PHASE_COLORS, sp)
    THEN "ColorFill"
  ELSE IF Before(elapsed, totalDuration, sp) THEN "EdgeFadeOut"
  ELSE "Complete"

\* what phaseElapsed subtracts, and the phase's own duration (nominal ms)
PhaseOffset(p) ==
  CASE p = "EdgeVisualization" -> PHASE_IMAGE
    [] p = "PointCloud" -> PHASE_IMAGE + PHASE_SOBEL
    [] p = "Wireframe" -> PHASE_IMAGE + PHASE_SOBEL + PHASE_POINTS
    [] p = "ColorFill" -> PHASE_IMAGE + PHASE_SOBEL + PHASE_POINTS + PHASE_LINES
    [] p = "EdgeFadeOut" ->
         PHASE_IMAGE + PHASE_SOBEL + PHASE_POINTS + PHASE_LINES + PHASE_COLORS
    [] OTHER -> 0

PhaseDuration(p) ==
  CASE p = "EdgeVisualization" -> PHASE_SOBEL
    [] p = "PointCloud" -> PHASE_POINTS
    [] p = "Wireframe" -> PHASE_LINES
    [] p = "ColorFill" -> PHASE_COLORS
    [] p = "EdgeFadeOut" -> PHASE_FADE_EDGES
    [] OTHER -> 1

ProgressPhases ==
  {"EdgeVisualization", "PointCloud", "Wireframe", "ColorFill", "EdgeFadeOut"}

NoProgress == <<0, 0>>

\* const progress = Math.min(1, phaseElapsed / PHASE_X), as the fraction <<n, d>>:
\* phaseElapsed / PHASE_X = (elapsed - offset / speed) / (X / speed)
\*                        = (elapsed * sp[1] - offset * sp[2]) / (X * sp[2])
ProgressOffsetDropped(elapsed, sp) ==
  LET p == PhaseAt(elapsed, sp)
      n == elapsed * sp[1]
      d == PhaseDuration(p) * sp[2]
  IN IF p \notin ProgressPhases THEN NoProgress ELSE <<n, d>>

Progress(elapsed, sp) ==
  LET p == PhaseAt(elapsed, sp)
      n == elapsed * sp[1] - PhaseOffset(p) * sp[2]
      d == PhaseDuration(p) * sp[2]
  IN IF p \notin ProgressPhases THEN NoProgress
     ELSE IF n > d THEN <<d, d>> ELSE <<n, d>>

\* the status label animate sets in each phase
PhaseStatus(p) ==
  CASE p = "SourceImage" -> "source image"
    [] p = "EdgeVisualization" -> "sobel filter"
    [] p = "PointCloud" -> "feature points"
    [] p = "Wireframe" -> "delaunay triangulation"
    [] p = "ColorFill" -> "color fill"
    [] p = "EdgeFadeOut" -> "final rendering"
    [] OTHER -> "complete"

\* the artifacts a frame of phase p paints: "img", "sobel", "points", "triangles"
PhaseDraws(p) ==
  CASE p = "SourceImage" -> {"img"}
    [] p = "EdgeVisualization" -> {"sobel"}
    [] p = "PointCloud" -> {"sobel", "points"}
    [] p = "Wireframe" -> {"points", "triangles"}
    [] OTHER -> {"triangles"}

\* requestAnimationFrame(animate) reached in every phase
RequestsFrameAlways(p) == TRUE

\* Complete returns before requestAnimationFrame(animate)
RequestsFrame(p) == p # "Complete"

\* ------------------------------------------------------------------------
\* One playback: the closure startAnimation creates, ticked by the frame clock
\* ------------------------------------------------------------------------
Speeds == {<<1, 1>>, <<2, 1>>, <<1, 2>>}

\* gaps between two frames: same frame time, regular frames, a stalled tab
Gaps == {0, 250, 500, 750, 1500, 3000, 13000}
FirstStamps == {0, 250, 1000}
AnyStamps == {0, 250, 1500, 4000, 5000, 6000, 9000, 11000, 12750, 17000, 22000}

Max(a, b) == IF a >= b THEN a ELSE b

\* no image load is being followed
LoadIdle ==
  /\ nNatural = <<0, 0>>
  /\ nQuality = 0
  /\ nSize = <<0, 0>>
  /\ nPoints = [points |-> <<>>, pointsMap |-> {}]
  /\ nStage = "idle"

\* no sequence of addPoint calls is being followed
KeyIdle ==
  /\ kPoints = [points |-> <<>>, pointsMap |-> {}]
  /\ kAsked = {}

\* no call of getMedianColor is being followed
ColorIdle ==
  /\ cImage = [w |-> 0, h |-> 0, seed |-> 0]
  /\ cTriangle = <<>>
  /\ cReads = <<>>
  /\ cColor = [r |-> 0, g |-> 0, b |-> 0, cx |-> 0, cy |-> 0]
  /\ cStage = "idle"

\* no sampler run is being followed
GeomIdle ==
  /\ gScene = [w |-> 0, h |-> 0, quality |-> 0, hot |-> {}]
  /\ gPoints = [points |-> <<>>, pointsMap |-> {}]
  /\ gKinds = {}
  /\ gStage = "idle"
  /\ gCells = <<>>
  /\ gPass = 0
  /\ gN = 0
  /\ gLeft = 0
  /\ gAdded = 0

\* the component's variables while a single playback is studied
LifeIdle ==
  /\ props = [src |-> "A", quality |-> 0, speed |-> <<1, 1>>]
  /\ runs = <<>>
  /\ loads = {}
  /\ timers = <<>>
  /\ frames = <<>>
  /\ frameSeq = 0
  /\ animationRef = 0
  /\ status = "processing"
  /\ dimensions = <<0, 0>>
  /\ trianglesRef = 0
  /\ sobelRef = 0
  /\ pointsRef = 0
  /\ imageRef = 0
  /\ now = 0
  /\ canvas = [run |-> 0, phase |-> "none", drew |-> {}]
  /\ staleActs = {}

\* startAnimation: let startTime = null; ... requestAnimationFrame(animate)
InitAnim ==
  /\ LifeIdle
  /\ GeomIdle
  /\ LoadIdle
  /\ ColorIdle
  /\ KeyIdle
  /\ aSpeed \in Speeds
  /\ aStart = Null
  /\ aClock = Null
  /\ aPhase = "none"
  /\ aProgress = NoProgress
  /\ aPending = TRUE
  /\ aSeen = {}
  /\ aMaxGap = 0
  /\ aRegress = FALSE

\* animate(timestamp)
Animate(timestamp) ==
  LET start == LatchStart(aStart, timestamp)
      elapsed == timestamp - start
      phase == PhaseAt(elapsed, aSpeed)
  IN /\ aPending
     /\ aStart' = start
     /\ aClock' = timestamp
     /\ aPhase' = phase
     /\ aProgress' = Progress(elapsed, aSpeed)
     /\ aPending' = RequestsFrame(phase)
     /\ aSeen' = aSeen \cup {phase}
     /\ aMaxGap' = IF aClock = Null THEN 0 ELSE Max(aMaxGap, timestamp - aClock)
     /\ aRegress' = (aRegress \/ PhaseIndex(phase) < PhaseIndex(aPhase))
     /\ UNCHANGED <<aSpeed, lifeVars, geomVars, loadVars, colorVars, keyVars>>

\* the frame clock delivers the requested frame; its timestamps never decrease
FrameTick ==
  \E t \in IF aClock = Null THEN FirstStamps ELSE {aClock + g : g \in Gaps} :
    /\ t <= MaxClock
    /\ Animate(t)

\* a driver that supplies any timestamp
AnyTick == \E t \in AnyStamps : Animate(t)

NextAnim == FrameTick
NextTick == AnyTick

SpecAnim == InitAnim /\ [][NextAnim]_vars
SpecTick == InitAnim /\ [][NextTick]_vars

\* the frame clock followed by the time it has run since the start time (not by its
\* absolute value), which the bound MaxClock then limits
LiveTick ==
  \E t \in IF aClock = Null THEN FirstStamps ELSE {aClock + g : g \in Gaps} :
    /\ t - LatchStart(aStart, t) <= MaxClock
    /\ Animate(t)

\* a requested frame is delivered with a later timestamp than the one before
ForwardTick == LiveTick /\ aClock' > aClock

NextLive == LiveTick

\* every requested frame is eventually delivered, and timestamps keep growing
SpecLive == InitAnim /\ [][NextLive]_vars /\ WF_vars(ForwardTick)

\* ------------------------------------------------------------------------
\* Points and their one-decimal keys             (part_000 lines 126-154)
\* ------------------------------------------------------------------------
\* coordinates are integers in units of 1 / Unit pixel
Unit == 64

Px(n) == n * Unit

Min(a, b) == IF a <= b THEN a ELSE b

\* x.toFixed(1), as <<negative, tenths>>: round to the nearest tenth, a tie to the
\* larger magnitude; "-0.0" and "0.0" are different strings
ToFixed1(c) ==
  IF c < 0 THEN <<TRUE, (10 * (-c) + Unit \div 2) \div Unit>>
  ELSE <<FALSE, (10 * c + Unit \div 2) \div Unit>>

Key(x, y) == <<ToFixed1(x), ToFixed1(y)>>

NoPoints == [points |-> <<>>, pointsMap |-> {}]

\* addPoint without the pointsMap.has(key) test
AddPointUnchecked(ps, x, y) ==
  [points |-> Append(ps.points, <<x, y>>),
   pointsMap |-> ps.pointsMap \cup {Key(x, y)}]

\* addPoint(x, y) on the pair (points, pointsMap)
AddPoint(ps, x, y) ==
  IF Key(x, y) \in ps.pointsMap THEN ps
  ELSE [points |-> Append(ps.points, <<x, y>>),
        pointsMap |-> ps.pointsMap \cup {Key(x, y)}]

\* the corners with the last addPoint call missing
CornersWithoutLast(width, height) ==
  AddPoint(AddPoint(AddPoint(NoPoints, 0, 0), Px(width), 0), 0, Px(height))

\* the four corners
Corners(width, height) ==
  AddPoint(AddPoint(AddPoint(AddPoint(NoPoints, 0, 0), Px(width), 0), 0, Px(height)),
           Px(width), Px(height))

\* const step = Math.max(10, Math.floor(100 - q * 90)), q = quality / 100
BorderStep(quality) == Max(10, (1000 - 9 * quality) \div 10)

\* (the test next = next only makes the evaluator compute one iteration before it
\* enters the following one)
RECURSIVE BorderAlongWidth(_, _, _, _, _)
BorderAlongWidth(ps, i, step, width, height) ==
  IF i > width THEN ps
  ELSE LET next == AddPoint(AddPoint(ps, Px(i), 0), Px(i), Px(height))
       IN IF next = next THEN BorderAlongWidth(next, i + step, step, width, height)
          ELSE next

RECURSIVE BorderAlongHeight(_, _, _, _, _)
BorderAlongHeight(ps, i, step, width, height) ==
  IF i > height THEN ps
  ELSE LET next == AddPoint(AddPoint(ps, 0, Px(i)), Px(width), Px(i))
       IN IF next = next THEN BorderAlongHeight(next, i + step, step, width, height)
          ELSE next

\* corners and border lattice with the test if (quality > 0) missing
BorderPointsAlways(width, height, quality) ==
  BorderAlongHeight(
    BorderAlongWidth(Corners(width, height), 0, BorderStep(quality), width, height),
    0, BorderStep(quality), width, height)

\* corners, then (quality > 0) the border lattice
BorderPoints(width, height, quality) ==
  IF quality > 0
  THEN BorderAlongHeight(
         BorderAlongWidth(Corners(width, height), 0, BorderStep(quality), width, height),
         0, BorderStep(quality), width, height)
  ELSE Corners(width, height)

\* ------------------------------------------------------------------------
\* Delaunator.from, by its contract
\* ------------------------------------------------------------------------
Cross(a, b, c) == (b[1] - a[1]) * (c[2] - a[2]) - (b[2] - a[2]) * (c[1] - a[1])

Range(seq) == {seq[i] : i \in 1..Len(seq)}

\* fewer than 3 distinct points, or all on one line: no triangle exists
Degenerate(points) ==
  \A a \in Range(points) : \A b \in Range(points) : \A c \in Range(points) :
    Cross(a, b, c) = 0

\* what a call can do: raise, or return its triangles
DelaunatorOutcomes == {"throws", "returns"}

\* ------------------------------------------------------------------------
\* img.onload: the processing size                (part_000 lines 72-93)
\* ------------------------------------------------------------------------
maxWidth == 800
maxHeight == 800

\* img.onload with the branch if (height > maxHeight) missing
OnloadSizeWidthOnly(iw, ih) ==
  IF iw > maxWidth THEN <<maxWidth, (maxWidth * ih) \div iw>> ELSE <<iw, ih>>

\* width and height after the two scaling branches and Math.floor, in exact
\* arithmetic: height is h1n / h1d after the first branch
OnloadSize(iw, ih) ==
  LET shrunkW == iw > maxWidth
      w1 == IF shrunkW THEN maxWidth ELSE iw
      h1n == IF shrunkW THEN maxWidth * ih ELSE ih
      h1d == IF shrunkW THEN iw ELSE 1
      shrunkH == h1n > maxHeight * h1d
      w2n == IF shrunkH THEN maxHeight * w1 * h1d ELSE w1
      w2d == IF shrunkH THEN h1n ELSE 1
      h2n == IF shrunkH THEN maxHeight ELSE h1n
      h2d == IF shrunkH THEN 1 ELSE h1d
  IN <<w2n \div w2d, h2n \div h2d>>

\* ------------------------------------------------------------------------
\* The component: props, effect, pipeline stages, animation frames
\* ------------------------------------------------------------------------
\* the images a parent can hand over, with their natural sizes
Images == {"A", "B"}
NaturalSize(src) == IF src = "A" THEN <<4, 3>> ELSE <<1600, 1>>
Qualities == {0, 50}
LifeSpeeds == {<<1, 1>>}
LifeGaps == {6500}

PropsSet == [src : Images, quality : Qualities, speed : LifeSpeeds]

AnimIdle ==
  /\ aSpeed = <<1, 1>>
  /\ aStart = Null
  /\ aClock = Null
  /\ aPhase = "none"
  /\ aProgress = NoProgress
  /\ aPending = FALSE
  /\ aSeen = {}
  /\ aMaxGap = 0
  /\ aRegress = FALSE

\* a run: one execution of the effect, with the props its closures captured
NewRun(p) ==
  [src |-> p.src, quality |-> p.quality, speed |-> p.speed,
   st |-> "loading", w |-> 0, h |-> 0, ps |-> NoPoints,
   threw |-> FALSE,
   shown |-> [tri |-> 0, sobel |-> 0, pts |-> 0, img |-> 0],
   startTime |-> Null, phase |-> "none"]

PendingStages == {"loading", "read", "sobel", "tri"}

Latest == Len(runs)
IsStale(r) == r < Latest

\* cancelAnimationFrame(animationRef.current), guarded by if (animationRef.current)
CancelFrame(fs, id) == SelectSeq(fs, LAMBDA f : id = 0 \/ f[1] # id)

\* history of what superseded runs still do
Stale(r, what) == IF IsStale(r) THEN staleActs \cup {<<r, w>> : w \in what} ELSE staleActs

\* mount: the first render and its effect
Init ==
  /\ AnimIdle
  /\ GeomIdle
  /\ LoadIdle
  /\ ColorIdle
  /\ KeyIdle
  /\ props \in PropsSet
  /\ runs = <<NewRun(props)>>
  /\ loads = {1}
  /\ timers = <<>>
  /\ frames = <<>>
  /\ frameSeq = 0
  /\ animationRef = 0
  /\ status = "processing"
  /\ dimensions = <<0, 0>>
  /\ trianglesRef = 0
  /\ sobelRef = 0
  /\ pointsRef = 0
  /\ imageRef = 0
  /\ now = 0
  /\ canvas = [run |-> 0, phase |-> "none", drew |-> {}]
  /\ staleActs = {}

\* imageSrc, quality or animationSpeed changes: the effect's cleanup, then the effect
PropsChange ==
  \E p \in PropsSet :
    /\ p # props
    /\ Len(runs) < MaxRuns
    /\ props' = p
    /\ frames' = CancelFrame(frames, animationRef)
    /\ runs' = Append(runs, NewRun(p))
    /\ loads' = loads \cup {Len(runs) + 1}
    /\ UNCHANGED <<timers, frameSeq, animationRef, status, dimensions, trianglesRef,
                   sobelRef, pointsRef, imageRef, now, canvas, staleActs,
                   animVars, geomVars,
                 loadVars, colorVars, keyVars>>

\* img.onload, then processImage up to its setTimeout
ImageLoad(r) ==
  LET size == OnloadSize(NaturalSize(runs[r].src)[1], NaturalSize(runs[r].src)[2])
  IN /\ r \in loads
     /\ loads' = loads \ {r}
     /\ imageRef' = r
     /\ dimensions' = size
     /\ frames' = CancelFrame(frames, animationRef)
     /\ status' = "processing"
     /\ timers' = Append(timers, <<r, "read">>)
     /\ runs' = [runs EXCEPT ![r].st = "read", ![r].w = size[1], ![r].h = size[2]]
     /\ staleActs' = Stale(r, {"stage", "write"})
     /\ UNCHANGED <<props, frameSeq, animationRef, trianglesRef, sobelRef, pointsRef,
                   now, canvas, animVars, geomVars,
                 loadVars, colorVars, keyVars>>

\* runTriangulation entered while the timeout that calls it is still queued
HandToTriangulationEarly(r, rec) ==
  /\ status' = "triangulating"
  /\ timers' = Append(timers, <<r, "tri">>)
  /\ runs' = [runs EXCEPT ![r] = [rec EXCEPT !.st = "tri"]]

\* runTriangulation up to its setTimeout
HandToTriangulation(r, rec) ==
  /\ status' = "triangulating"
  /\ timers' = Append(Tail(timers), <<r, "tri">>)
  /\ runs' = [runs EXCEPT ![r] = [rec EXCEPT !.st = "tri"]]

\* ctx.getImageData(0, 0, width, height) has no pixel to return
EmptyRectangle(width, height) == width = 0 \/ height = 0

\* the first timeout of processImage: pixel read, corners, border lattice
TimerRead(r) ==
  /\ timers # <<>> /\ Head(timers) = <<r, "read">>
  /\ staleActs' = Stale(r, {"stage"})
  /\ UNCHANGED <<props, loads, frames, frameSeq, animationRef, dimensions,
                 trianglesRef, sobelRef, pointsRef, imageRef, now, canvas,
                 animVars, geomVars,
                 loadVars, colorVars, keyVars>>
  /\ \/ \* if (!ctx) return
        /\ runs' = [runs EXCEPT ![r].st = "aborted"]
        /\ timers' = Tail(timers)
        /\ UNCHANGED status
     \/ \* getImageData of an empty rectangle raises IndexSizeError: uncaught
        /\ EmptyRectangle(runs[r].w, runs[r].h)
        /\ runs' = [runs EXCEPT ![r].st = "crashed"]
        /\ timers' = Tail(timers)
        /\ UNCHANGED status
     \/ \* quality > 0: border lattice, then the second timeout
        /\ ~EmptyRectangle(runs[r].w, runs[r].h)
        /\ runs[r].quality > 0
        /\ runs' = [runs EXCEPT ![r].st = "sobel",
                                ![r].ps = BorderPoints(runs[r].w, runs[r].h, runs[r].quality)]
        /\ status' = "edges"
        /\ timers' = Append(Tail(timers), <<r, "sobel">>)
     \/ \* quality = 0: the corners go straight to runTriangulation
        /\ ~EmptyRectangle(runs[r].w, runs[r].h)
        /\ runs[r].quality = 0
        /\ HandToTriangulation(r,
             [runs[r] EXCEPT !.ps = BorderPoints(runs[r].w, runs[r].h, runs[r].quality)])

\* points the sampler and the refinement may append in the component's runs: none,
\* or one point inside the image (the sampler itself is the subject of SpecGeom)
SampledPoints(rec) ==
  {rec.ps} \cup
  (IF rec.w > 0 /\ rec.h > 0
   THEN {AddPoint(rec.ps, Px(rec.w) \div 2, Px(rec.h) \div 2)} ELSE {})

\* the second timeout: edge field, sampling, refinement, runTriangulation
TimerSobel(r) ==
  /\ timers # <<>> /\ Head(timers) = <<r, "sobel">>
  /\ sobelRef' = r
  /\ UNCHANGED <<props, loads, frames, frameSeq, animationRef, dimensions,
                 trianglesRef, imageRef, now, canvas, animVars, geomVars,
                 loadVars, colorVars, keyVars>>
  /\ \E ps \in SampledPoints(runs[r]) : \E outcome \in DelaunatorOutcomes :
       \/ \* Delaunator.from(currentPoints) of the refinement loop raises: uncaught
          /\ outcome = "throws"
          /\ runs' = [runs EXCEPT ![r].st = "crashed", ![r].ps = ps,
                                  ![r].threw = TRUE]
          /\ timers' = Tail(timers)
          /\ staleActs' = Stale(r, {"stage", "write"})
          /\ UNCHANGED <<status, pointsRef>>
       \/ /\ outcome = "returns"
          /\ pointsRef' = r
          /\ HandToTriangulation(r, [runs[r] EXCEPT !.ps = ps])
          /\ staleActs' = Stale(r, {"stage", "write"})

\* what startAnimation can find: the canvas and its context, or nothing
CanvasOutcomes == {"canvas", "none"}

\* the timeout of runTriangulation: triangulate, colour, startAnimation
TimerTri(r) ==
  /\ timers # <<>> /\ Head(timers) = <<r, "tri">>
  /\ timers' = Tail(timers)
  /\ UNCHANGED <<props, loads, dimensions, sobelRef, pointsRef, imageRef, now, canvas,
                 animVars, geomVars,
                 loadVars, colorVars, keyVars>>
  /\ \E outcome \in DelaunatorOutcomes : \E found \in CanvasOutcomes :
       \/ \* catch (e): the error status
          /\ outcome = "throws" /\ found = "canvas"
          /\ runs' = [runs EXCEPT ![r].st = "error", ![r].threw = TRUE]
          /\ status' = "error"
          /\ staleActs' = Stale(r, {"stage"})
          /\ UNCHANGED <<frames, frameSeq, animationRef, trianglesRef>>
       \/ \* startAnimation returns early: no canvas, or no context
          /\ outcome = "returns" /\ found = "none"
          /\ trianglesRef' = r
          /\ runs' = [runs EXCEPT ![r].st = "aborted"]
          /\ staleActs' = Stale(r, {"stage", "write"})
          /\ UNCHANGED <<frames, frameSeq, animationRef, status>>
       \/ \* startAnimation: capture the refs, request the first frame
          /\ outcome = "returns" /\ found = "canvas"
          /\ trianglesRef' = r
          /\ runs' = [runs EXCEPT ![r].st = "anim",
                        ![r].shown = [tri |-> r, sobel |-> sobelRef, pts |-> pointsRef,
                                      img |-> imageRef]]
          /\ frameSeq' = frameSeq + 1
          /\ frames' = Append(frames, <<frameSeq + 1, r, now - 1>>)
          /\ animationRef' = frameSeq + 1
          /\ staleActs' = Stale(r, {"stage", "write"})
          /\ UNCHANGED status

\* what a frame of run r in phase p paints, as <<kind, producing run>>; a null edge
\* field, a null image and empty lists paint nothing
Painted(r, p) ==
  {<<k, o>> \in {<<"img", runs[r].shown.img>>, <<"sobel", runs[r].shown.sobel>>,
                 <<"points", runs[r].shown.pts>>, <<"triangles", runs[r].shown.tri>>} :
     k \in PhaseDraws(p) /\ o # 0}

\* the frame clock runs the oldest requested callback: animate(now) of run r
AnimationFrame ==
  /\ frames # <<>>
  /\ now > Head(frames)[3]
  /\ LET r == Head(frames)[2]
         start == LatchStart(runs[r].startTime, now)
         phase == PhaseAt(now - start, runs[r].speed)
     IN /\ status' = PhaseStatus(phase)
        /\ canvas' = [run |-> r, phase |-> phase, drew |-> Painted(r, phase)]
        /\ staleActs' = Stale(r, {"frame"})
        /\ IF RequestsFrame(phase)
           THEN /\ frameSeq' = frameSeq + 1
                /\ frames' = Append(Tail(frames), <<frameSeq + 1, r, now>>)
                /\ animationRef' = frameSeq + 1
                /\ runs' = [runs EXCEPT ![r].startTime = start, ![r].phase = phase]
           ELSE /\ frames' = Tail(frames)
                /\ runs' = [runs EXCEPT ![r].startTime = start, ![r].phase = phase,
                                        ![r].st = "complete"]
                /\ UNCHANGED <<frameSeq, animationRef>>
  /\ UNCHANGED <<props, loads, timers, dimensions, trianglesRef, sobelRef, pointsRef,
                 imageRef, now, animVars, geomVars,
                 loadVars, colorVars, keyVars>>

\* time passes between frames
ClockAdvance ==
  \E g \in LifeGaps :
    /\ frames # <<>>
    /\ now + g <= MaxNow
    /\ now' = now + g
    /\ UNCHANGED <<props, runs, loads, timers, frames, frameSeq, animationRef, status,
                   dimensions, trianglesRef, sobelRef, pointsRef, imageRef, canvas,
                   staleActs, animVars, geomVars,
                 loadVars, colorVars, keyVars>>

Next ==
  \/ PropsChange
  \/ \E r \in 1..Len(runs) : ImageLoad(r)
  \/ \E r \in 1..Len(runs) : TimerRead(r)
  \/ \E r \in 1..Len(runs) : TimerSobel(r)
  \/ \E r \in 1..Len(runs) : TimerTri(r)
  \/ AnimationFrame
  \/ ClockAdvance

Spec == Init /\ [][Next]_vars

\* ------------------------------------------------------------------------
\* The sampler and the refinement of one run     (part_000 lines 126-298)
\* ------------------------------------------------------------------------
\* the edge field of a scene: the gradient magnitude at the hot pixels, 0 elsewhere
Grad(scene, x, y) ==
  IF \E e \in scene.hot : e[1] = x /\ e[2] = y
  THEN (CHOOSE e \in scene.hot : e[1] = x /\ e[2] = y)[3]
  ELSE 0

\* ten times threshold = 10 + (1 - q) * 40 and salientThreshold = threshold + 30 +
\* (1 - q) * 20, with q = quality / 100
Threshold10SignSlip(quality) == 100 - 4 * (100 - quality)
Threshold10(quality) == 500 - 4 * quality
Salient10(quality) == 1000 - 6 * quality

\* const baseCellSize = Math.max(10, Math.floor(50 - q * 40))
BaseCellSize(quality) == Max(10, (500 - 4 * quality) \div 10)

maxDepth == 2

\* one pass more than the loop's bound
refinementPassesThree == 2 + 1
refinementPasses == 2

\* the for loops over the base cells, as the list of their origins
BaseCells(width, height, base) ==
  LET nx == (width + base - 1) \div base
      ny == (height + base - 1) \div base
  IN [k \in 1..(nx * ny) |-> <<((k - 1) % nx) * base, ((k - 1) \div nx) * base>>]

\* the scan of a cell: <<maxGrad, maxX, maxY>>, the first strict maximum in scan order
CellMax(scene, cx, cy, size) ==
  LET endY == Min(cy + size, scene.h - 1)
      endX == Min(cx + size, scene.w - 1)
      pixels == {<<x, y>> \in (cx..(endX - 1)) \X (cy..(endY - 1)) : Grad(scene, x, y) > 0}
      best == {p \in pixels : \A o \in pixels : Grad(scene, o[1], o[2]) <= Grad(scene, p[1], p[2])}
      first == CHOOSE p \in best :
                 \A o \in best : p[2] < o[2] \/ (p[2] = o[2] /\ p[1] <= o[1])
  IN IF pixels = {} THEN <<0, -1, -1>>
     ELSE <<Grad(scene, first[1], first[2]), first[1], first[2]>>

\* addPoint, remembering the kind of the point when it is stored
Store(st, x, y, kind) ==
  [ps |-> AddPoint(st.ps, x, y),
   kinds |-> IF Key(x, y) \in st.ps.pointsMap THEN st.kinds ELSE st.kinds \cup {kind}]

\* Math.max(lo, Math.min(hi, v)) with the bounds dropped
ClampDropped(lo, hi, v) == v

\* Math.max(lo, Math.min(hi, v))
Clamp(lo, hi, v) == Max(lo, Min(hi, v))

\* Math.random() < randomProb did not hold
NoFill == <<>>

\* (Math.random() - 0.5) * size, in quarters of the cell size
Jitters(size) == {k * (Px(size) \div 4) : k \in {-2, 0, 1}}

Fills(size) == {NoFill} \cup (Jitters(size) \X Jitters(size))

RECURSIVE ProcessCell(_, _, _, _, _, _, _)
ProcessCell(st, scene, cx, cy, size, depth, fill) ==
  LET m == CellMax(scene, cx, cy, size)
      half == size \div 2
  IN IF 10 * m[1] > Salient10(scene.quality) /\ depth < maxDepth /\ size > 6
     THEN ProcessCell(
            ProcessCell(
              ProcessCell(
                ProcessCell(st, scene, cx, cy, half, depth + 1, fill),
                scene, cx + half, cy, half, depth + 1, fill),
              scene, cx, cy + half, half, depth + 1, fill),
            scene, cx + half, cy + half, half, depth + 1, fill)
     ELSE IF 10 * m[1] > Threshold10(scene.quality)
     THEN Store(st, Px(m[2]), Px(m[3]), "edge")
     ELSE IF depth = 0 /\ fill # NoFill
     THEN Store(st,
                Clamp(0, Px(scene.w), Px(cx) + Px(size) \div 2 + fill[1]),
                Clamp(0, Px(scene.h), Px(cy) + Px(size) \div 2 + fill[2]),
                "fill")
     ELSE st

Dist2(a, b) == (a[1] - b[1]) * (a[1] - b[1]) + (a[2] - b[2]) * (a[2] - b[2])

Abs(n) == IF n < 0 THEN -n ELSE n

\* the body of the refinement loop with the longest edge bisected whether or not the
\* midpoint's key is stored
RefineTriangleUnkeyed(ps, a, b, c, width, height) ==
  LET p1 == ps.points[a]
      p2 == ps.points[b]
      p3 == ps.points[c]
      l1 == Dist2(p1, p2)
      l2 == Dist2(p2, p3)
      l3 == Dist2(p3, p1)
      maxL == Max(l1, Max(l2, l3))
      minL == Min(l1, Min(l2, l3))
      area2 == Abs(Cross(p1, p2, p3))
      isSharp == maxL > 16 * Max(Unit * Unit, minL)
      isTooLarge == 25 * area2 > 2 * width * height * Unit * Unit
      mid == IF maxL = l1 THEN <<(p1[1] + p2[1]) \div 2, (p1[2] + p2[2]) \div 2>>
             ELSE IF maxL = l2 THEN <<(p2[1] + p3[1]) \div 2, (p2[2] + p3[2]) \div 2>>
             ELSE <<(p3[1] + p1[1]) \div 2, (p3[2] + p1[2]) \div 2>>
  IN IF (isSharp /\ area2 > 100 * Unit * Unit) \/ isTooLarge
     THEN AddPointUnchecked(ps, mid[1], mid[2])
     ELSE ps

\* the body of the refinement loop for the triangle (a, b, c) of currentPoints:
\* lengths are compared by their squares, the area is half the cross product
RefineTriangle(ps, a, b, c, width, height) ==
  LET p1 == ps.points[a]
      p2 == ps.points[b]
      p3 == ps.points[c]
      l1 == Dist2(p1, p2)
      l2 == Dist2(p2, p3)
      l3 == Dist2(p3, p1)
      maxL == Max(l1, Max(l2, l3))
      minL == Min(l1, Min(l2, l3))
      area2 == Abs(Cross(p1, p2, p3))
      isSharp == maxL > 16 * Max(Unit * Unit, minL)
      isTooLarge == 25 * area2 > 2 * width * height * Unit * Unit
      mid == IF maxL = l1 THEN <<(p1[1] + p2[1]) \div 2, (p1[2] + p2[2]) \div 2>>
             ELSE IF maxL = l2 THEN <<(p2[1] + p3[1]) \div 2, (p2[2] + p3[2]) \div 2>>
             ELSE <<(p3[1] + p1[1]) \div 2, (p3[2] + p1[2]) \div 2>>
  IN IF (isSharp /\ area2 > 100 * Unit * Unit) \/ isTooLarge
     THEN AddPoint(ps, mid[1], mid[2])
     ELSE ps

\* the images the sampler is followed on: size, quality, hot pixels <<x, y, gradient>>
Scenes ==
  {[w |-> 9, h |-> 9, quality |-> 0, hot |-> {}],
   [w |-> 9, h |-> 9, quality |-> 50, hot |-> {}],
   [w |-> 10, h |-> 9, quality |-> 100, hot |-> {}],
   [w |-> 9, h |-> 9, quality |-> 50, hot |-> {<<3, 3, 50>>}],
   [w |-> 9, h |-> 9, quality |-> 50, hot |-> {<<3, 3, 200>>, <<7, 5, 200>>}],
   [w |-> 12, h |-> 9, quality |-> 100, hot |-> {<<3, 3, 20>>}],
   [w |-> 16, h |-> 9, quality |-> 90, hot |-> {<<3, 3, 200>>}],
   [w |-> 16, h |-> 9, quality |-> 90, hot |-> {<<6, 3, 200>>}]}

InitGeom ==
  /\ LifeIdle
  /\ AnimIdle
  /\ LoadIdle
  /\ ColorIdle
  /\ KeyIdle
  /\ gScene \in Scenes
  /\ gPoints = NoPoints
  /\ gKinds = {}
  /\ gStage = "start"
  /\ gCells = <<>>
  /\ gPass = 0
  /\ gN = 0
  /\ gLeft = 0
  /\ gAdded = 0

\* corners and border lattice; quality 0 goes straight to runTriangulation
GeomBorder ==
  /\ gStage = "start"
  /\ gPoints' = BorderPoints(gScene.w, gScene.h, gScene.quality)
  /\ gKinds' = {"corner"} \cup (IF Len(gPoints'.points) > 4 THEN {"border"} ELSE {})
  /\ IF gScene.quality > 0
     THEN /\ gStage' = "cells"
          /\ gCells' = BaseCells(gScene.w, gScene.h, BaseCellSize(gScene.quality))
     ELSE /\ gStage' = "done"
          /\ gCells' = <<>>
  /\ UNCHANGED <<gScene, gPass, gN, gLeft, gAdded, lifeVars, animVars,
                 loadVars, colorVars, keyVars>>

\* processCell(x, y, baseCellSize, 0) for the next base cell
GeomCell ==
  /\ gStage = "cells"
  /\ gCells # <<>>
  /\ \E fill \in Fills(BaseCellSize(gScene.quality)) :
       LET st == ProcessCell([ps |-> gPoints, kinds |-> gKinds], gScene,
                             Head(gCells)[1], Head(gCells)[2],
                             BaseCellSize(gScene.quality), 0, fill)
       IN /\ gPoints' = st.ps
          /\ gKinds' = st.kinds
  /\ gCells' = Tail(gCells)
  /\ UNCHANGED <<gScene, gStage, gPass, gN, gLeft, gAdded, lifeVars, animVars,
                 loadVars, colorVars, keyVars>>

\* let currentPoints = [...points]: the refinement loop is entered
GeomCellsDone ==
  /\ gStage = "cells"
  /\ gCells = <<>>
  /\ gStage' = "refine"
  /\ gPass' = 0
  /\ gLeft' = MaxTriangles
  /\ UNCHANGED <<gScene, gPoints, gKinds, gCells, gN, gAdded, lifeVars, animVars,
                 loadVars, colorVars, keyVars>>

\* Delaunator.from(currentPoints): the triangles are index triples of the points
\* given
GeomPassStart ==
  /\ gStage = "refine"
  /\ gStage' = "triangles"
  /\ gN' = Len(gPoints.points)
  /\ gAdded' = 0
  /\ UNCHANGED <<gScene, gPoints, gKinds, gCells, gPass, gLeft, lifeVars, animVars,
                 loadVars, colorVars, keyVars>>

\* one iteration of the loop over trianglesData, for any triangle the points allow;
\* at most MaxTriangles iterations are followed in a run
GeomTriangle ==
  /\ gStage = "triangles"
  /\ gLeft > 0
  /\ \E a \in 1..gN : \E b \in 1..gN : \E c \in 1..gN :
       /\ Cross(gPoints.points[a], gPoints.points[b], gPoints.points[c]) # 0
       /\ gPoints' = RefineTriangle(gPoints, a, b, c, gScene.w, gScene.h)
  /\ gAdded' = gAdded + (Len(gPoints'.points) - Len(gPoints.points))
  /\ gKinds' = IF gPoints' # gPoints THEN gKinds \cup {"midpoint"} ELSE gKinds
  /\ gLeft' = gLeft - 1
  /\ UNCHANGED <<gScene, gStage, gCells, gPass, gN, lifeVars, animVars,
                 loadVars, colorVars, keyVars>>

\* the end of a pass: if (added === 0) break, else the next pass
GeomPassEnd ==
  /\ gStage = "triangles"
  /\ gStage' = IF gAdded = 0 \/ gPass + 1 >= refinementPasses THEN "done" ELSE "refine"
  /\ gPass' = gPass + 1
  /\ UNCHANGED <<gScene, gPoints, gKinds, gCells, gN, gLeft, gAdded, lifeVars, animVars,
                 loadVars, colorVars, keyVars>>

NextGeom ==
  \/ GeomBorder
  \/ GeomCell
  \/ GeomCellsDone
  \/ GeomPassStart
  \/ GeomTriangle
  \/ GeomPassEnd

SpecGeom == InitGeom /\ [][NextGeom]_vars

\* ------------------------------------------------------------------------
\* Properties of the sampler and the refinement (SpecGeom)
\* ------------------------------------------------------------------------
\* C10: every stored point (corner, border lattice, edge maximum, jittered fill,
\* edge midpoint) has 0 <= x <= width and 0 <= y <= height
C10_PointsInsideImage ==
  \A i \in 1..Len(gPoints.points) :
    /\ 0 <= gPoints.points[i][1] /\ gPoints.points[i][1] <= Px(gScene.w)
    /\ 0 <= gPoints.points[i][2] /\ gPoints.points[i][2] <= Px(gScene.h)

\* a finished run that stored points of all five kinds, one of them a fill point
\* clamped onto the right or the bottom border
C10_Witness ==
  /\ gStage = "done"
  /\ gKinds = {"corner", "border", "edge", "fill", "midpoint"}
  /\ gPass = refinementPasses
  /\ \E i \in 1..Len(gPoints.points) : gPoints.points[i] = <<Px(gScene.w), Px(5)>>

\* a triangle is sharp (longest edge / max(1, shortest edge) > 4 with area > 50) or
\* oversized (area > 0.04 * width * height)
Flawed(p1, p2, p3, width, height) ==
  LET longest == Max(Dist2(p1, p2), Max(Dist2(p2, p3), Dist2(p3, p1)))
      shortest == Min(Dist2(p1, p2), Min(Dist2(p2, p3), Dist2(p3, p1)))
      area2 == Abs(Cross(p1, p2, p3))
  IN \/ longest > 16 * Max(Unit * Unit, shortest) /\ area2 > 100 * Unit * Unit
     \/ 25 * area2 > 2 * width * height * Unit * Unit

\* the run did both refinement passes and the second one still inserted points
PassesExhausted == gPass = refinementPasses /\ gAdded > 0

\* C15: the final mesh has no sharp and no oversized triangle, unless both passes
\* ran and the second still inserted points.  The triangles of the mesh are
\* non-collinear triples of the final points and there is at least one, so the
\* claim requires that some non-collinear triple of the final points is not flawed
C15_NoFlawedTriangleLeft ==
  (gStage = "done" /\ ~PassesExhausted /\ ~Degenerate(gPoints.points))
    => \E a \in 1..Len(gPoints.points) : \E b \in 1..Len(gPoints.points) :
         \E c \in 1..Len(gPoints.points) :
           /\ Cross(gPoints.points[a], gPoints.points[b], gPoints.points[c]) # 0
           /\ ~Flawed(gPoints.points[a], gPoints.points[b], gPoints.points[c],
                      gScene.w, gScene.h)

\* the sampler runs or has run on an image whose edge field is zero everywhere,
\* quality > 0, and the refinement has not begun
FlatImageSampled ==
  /\ gScene.hot = {}
  /\ gScene.quality > 0
  /\ gStage = "cells" \/ (gStage = "refine" /\ gPass = 0)

OnBorder(p) ==
  p[1] \in {0, Px(gScene.w)} \/ p[2] \in {0, Px(gScene.h)}

\* C17 as stated: on a zero edge field the sampler emits only corner and
\* border-lattice points, every point has x in {0, width} or y in {0, height}
C17_OnlyBorderPoints ==
  FlatImageSampled => \A i \in 1..Len(gPoints.points) : OnBorder(gPoints.points[i])

\* C17 amended: on a zero edge field the sampler stores no edge maximum; beside the
\* corner and border-lattice points it stores at most one jittered fill point per
\* base cell processed
C17_NoEdgePointOnFlatImage ==
  FlatImageSampled
    => /\ gKinds \subseteq {"corner", "border", "fill"}
       /\ Len(gPoints.points)
            <= Len(BorderPoints(gScene.w, gScene.h, gScene.quality).points)
               + Len(BaseCells(gScene.w, gScene.h, BaseCellSize(gScene.quality)))
               - Len(gCells)

\* a zero edge field whose sampler stored a fill point strictly inside the image
C17_Witness ==
  /\ FlatImageSampled
  /\ gStage = "refine"
  /\ "fill" \in gKinds
  /\ \E i \in 1..Len(gPoints.points) : ~OnBorder(gPoints.points[i])

\* the sampler has processed every base cell
SamplerDone == gScene.quality > 0 /\ gStage \in {"refine", "triangles", "done"}

\* the stored point p is an edge point: it sits on a pixel whose gradient exceeds
\* the edge threshold
IsEdgePoint(p) ==
  /\ p[1] % Unit = 0 /\ p[2] % Unit = 0
  /\ 10 * Grad(gScene, p[1] \div Unit, p[2] \div Unit) > Threshold10(gScene.quality)

\* C24: once the sampler has run, every base cell whose maximum gradient exceeds
\* the salient threshold holds at least one stored edge point
C24_SalientCellHasEdgePoint ==
  SamplerDone
    => LET base == BaseCellSize(gScene.quality)
           cells == BaseCells(gScene.w, gScene.h, base)
       IN \A k \in 1..Len(cells) :
            10 * CellMax(gScene, cells[k][1], cells[k][2], base)[1]
                > Salient10(gScene.quality)
              => \E i \in 1..Len(gPoints.points) :
                   /\ IsEdgePoint(gPoints.points[i])
                   /\ Px(cells[k][1]) <= gPoints.points[i][1]
                   /\ gPoints.points[i][1] < Px(cells[k][1] + base)
                   /\ Px(cells[k][2]) <= gPoints.points[i][2]
                   /\ gPoints.points[i][2] < Px(cells[k][2] + base)

\* calls of Delaunator.from a run has made so far: one per refinement pass begun,
\* and the one of runTriangulation once the refinement is over
Triangulations ==
  (IF gStage = "triangles" THEN gPass + 1 ELSE gPass)
  + (IF gStage = "done" THEN 1 ELSE 0)

\* C25: the refinement runs at most 2 passes, a further pass begins only after a
\* pass that inserted a point, and a run triangulates at most 3 times
C25_AtMostTwoPasses ==
  /\ gPass <= 2
  /\ gStage \in {"refine", "triangles"} => gPass < 2
  /\ (gStage = "refine" /\ gPass > 0) => gAdded > 0
  /\ Triangulations <= 3

\* the first pass inserted midpoints, the second none: the loop ended on its break
C25_Witness ==
  /\ gStage = "done"
  /\ gPass = 2
  /\ gAdded = 0
  /\ "midpoint" \in gKinds

\* m is the midpoint of an edge of maximal length of the triangle (p1, p2, p3)
LongestEdgeMidpoint(m, p1, p2, p3) ==
  \E e \in {<<p1, p2>>, <<p2, p3>>, <<p3, p1>>} :
    /\ \A f \in {<<p1, p2>>, <<p2, p3>>, <<p3, p1>>} :
         Dist2(f[1], f[2]) <= Dist2(e[1], e[2])
    /\ 2 * m[1] = e[1][1] + e[2][1]
    /\ 2 * m[2] = e[1][2] + e[2][2]

\* the triangles an iteration can be about: the non-collinear triples of the points
\* Delaunator.from was given
PassTriangles ==
  {t \in (1..gN) \X (1..gN) \X (1..gN) :
     /\ t[1] < t[2] /\ t[2] < t[3]
     /\ Cross(gPoints.points[t[1]], gPoints.points[t[2]], gPoints.points[t[3]]) # 0}

\* the midpoints of the three edges of a triangle
EdgeMidpoints(p1, p2, p3) ==
  {<<(e[1][1] + e[2][1]) \div 2, (e[1][2] + e[2][2]) \div 2>> :
     e \in {<<p1, p2>>, <<p2, p3>>, <<p3, p1>>}}

C11_KeysAreUnique ==
  LET keys == {Key(gPoints.points[i][1], gPoints.points[i][2]) :
                 i \in 1..Len(gPoints.points)}
  IN /\ Cardinality(keys) = Len(gPoints.points)
     /\ gPoints.pointsMap = keys

\* a finished run at quality > 0: the border lattice offered the corners again
\* (i = 0), edge maxima were stored and the refinement inserted midpoints
C11_Witness ==
  /\ gStage = "done"
  /\ gScene.quality > 0
  /\ {"border", "edge", "midpoint"} \subseteq gKinds
  /\ Len(gPoints.points) >= 8

\* ------------------------------------------------------------------------
\* One image load, up to the point set handed to triangulation
\*                                               (part_000 lines 72-157, 298-303)
\* ------------------------------------------------------------------------
\* img.width, img.height of the images followed
NaturalSizes ==
  {<<1, 1>>, <<4, 3>>, <<3, 4>>, <<1, 800>>, <<800, 1>>, <<640, 480>>, <<799, 799>>,
   <<800, 800>>, <<800, 801>>, <<801, 800>>, <<801, 801>>, <<1600, 1>>, <<1601, 2>>,
   <<1600, 3>>, <<1, 1601>>, <<2, 1600>>, <<1600, 1200>>, <<1200, 1600>>,
   <<100, 1700>>, <<900, 8000>>, <<3000, 1000>>, <<1000, 3000>>, <<2400, 2400>>,
   <<1920, 1080>>, <<1080, 1920>>}

LoadQualities == {0, 1, 5, 7, 50, 100}

InitLoad ==
  /\ LifeIdle
  /\ AnimIdle
  /\ GeomIdle
  /\ ColorIdle
  /\ KeyIdle
  /\ nNatural \in NaturalSizes
  /\ nQuality \in LoadQualities
  /\ nSize = <<0, 0>>
  /\ nPoints = NoPoints
  /\ nStage = "loading"

\* img.onload: the processing size
LoadImage ==
  /\ nStage = "loading"
  /\ nSize' = OnloadSize(nNatural[1], nNatural[2])
  /\ nStage' = "read"
  /\ UNCHANGED <<nNatural, nQuality, nPoints, lifeVars, animVars, geomVars, colorVars, keyVars>>

\* the first timeout of processImage
LoadRead ==
  /\ nStage = "read"
  /\ \/ \* if (!ctx) return
        /\ nStage' = "aborted"
        /\ UNCHANGED nPoints
     \/ \* getImageData of an empty rectangle raises IndexSizeError: uncaught
        /\ EmptyRectangle(nSize[1], nSize[2])
        /\ nStage' = "crashed"
        /\ UNCHANGED nPoints
     \/ \* corners and border lattice; quality 0 calls runTriangulation(points, ...)
        /\ ~EmptyRectangle(nSize[1], nSize[2])
        /\ nPoints' = BorderPoints(nSize[1], nSize[2], nQuality)
        /\ nStage' = IF nQuality > 0 THEN "sobel" ELSE "handed"
  /\ UNCHANGED <<nNatural, nQuality, nSize, lifeVars, animVars, geomVars, colorVars, keyVars>>

\* the second timeout: sampling and refinement, then runTriangulation(currentPoints, ...)
LoadSample ==
  /\ nStage = "sobel"
  /\ nPoints' \in SampledPoints([ps |-> nPoints, w |-> nSize[1], h |-> nSize[2]])
  /\ nStage' = "handed"
  /\ UNCHANGED <<nNatural, nQuality, nSize, lifeVars, animVars, geomVars, colorVars, keyVars>>

NextLoad ==
  \/ LoadImage
  \/ LoadRead
  \/ LoadSample

SpecLoad == InitLoad /\ [][NextLoad]_vars

\* ------------------------------------------------------------------------
\* Properties of an image load (SpecLoad)
\* ------------------------------------------------------------------------
\* C12: the point set handed to triangulation has at least 4 points, whatever the
\* quality and the size the downscaling produced
C12_AtLeastFourPoints ==
  nStage = "handed" => Len(nPoints.points) >= 4

\* the smallest image, 1 x 1, at quality 0: its four corners have four keys
C12_Witness ==
  /\ nStage = "handed"
  /\ nSize = <<1, 1>>
  /\ nQuality = 0
  /\ Len(nPoints.points) = 4

\* C13: at quality 0 the point set handed to triangulation is exactly the four
\* corners (0,0), (width,0), (0,height), (width,height)
C13_QualityZeroFourCorners ==
  (nStage = "handed" /\ nQuality = 0)
    => nPoints.points = << <<0, 0>>, <<Px(nSize[1]), 0>>, <<0, Px(nSize[2])>>,
                           <<Px(nSize[1]), Px(nSize[2])>> >>

\* quality 0 on an 800 x 600 image, where a border lattice would not be empty
C13_Witness ==
  /\ nStage = "handed"
  /\ nQuality = 0
  /\ nSize = <<800, 600>>
  /\ Len(nPoints.points) = 4

\* C16: the processing width and height are integers, both at most 800, and equal
\* to the source dimensions when those are both at most 800
C16_SizeWithinLimits ==
  nStage # "loading"
    => /\ nSize[1] \in 0..maxWidth
       /\ nSize[2] \in 0..maxHeight
       /\ (nNatural[1] <= maxWidth /\ nNatural[2] <= maxHeight) => nSize = nNatural

\* a 900 x 8000 image: both scaling branches are taken
C16_Witness ==
  /\ nStage = "read"
  /\ nNatural = <<900, 8000>>
  /\ nSize = <<90, 800>>

\* C29: a source image of width and height >= 1 gets a processing width and height
\* >= 1, and once the corners are stored they are four distinct points
C29_ProcessingSizeAtLeastOne ==
  (nStage # "loading" /\ nNatural[1] >= 1 /\ nNatural[2] >= 1)
    => /\ nSize[1] >= 1
       /\ nSize[2] >= 1
       /\ nStage \in {"sobel", "handed"}
            => Cardinality({nPoints.points[i] : i \in 1..4}) = 4

\* max(10, round(100 - 90q)) with q = quality / 100 (Math.round takes .5 upwards)
StepRounded(quality) == Max(10, (1000 - 9 * quality + 5) \div 10)

\* the coordinates 0, step, 2 step, ... up to the length of an edge
Multiples(step, length) == {Px(k * step) : k \in 0..(length \div step)}

\* C23: at quality 1..100 the border points lie at the multiples of
\* max(10, round(100 - 90q)) along the four edges (with the four corners)
C23_BorderOnRoundedLattice ==
  (nStage = "sobel" /\ nQuality > 0)
    => LET P == Range(nPoints.points)
           step == StepRounded(nQuality)
       IN /\ {p[1] : p \in {o \in P : o[2] = 0}}
               = Multiples(step, nSize[1]) \cup {Px(nSize[1])}
          /\ {p[1] : p \in {o \in P : o[2] = Px(nSize[2])}}
               = Multiples(step, nSize[1]) \cup {Px(nSize[1])}
          /\ {p[2] : p \in {o \in P : o[1] = 0}}
               = Multiples(step, nSize[2]) \cup {Px(nSize[2])}
          /\ {p[2] : p \in {o \in P : o[1] = Px(nSize[1])}}
               = Multiples(step, nSize[2]) \cup {Px(nSize[2])}

\* ------------------------------------------------------------------------
\* getMedianColor                                 (part_000 lines 20-55)
\* ------------------------------------------------------------------------
\* reading a typed array outside its length gives undefined
Undefined == -1

\* data[idx] of the image: a Uint8ClampedArray of width * height * 4 bytes
DataAt(image, idx) ==
  IF idx \in 0..(image.w * image.h * 4 - 1)
  THEN (idx * image.seed + 17 * (idx % 4)) % 256
  ELSE Undefined

\* the decimal digits of a byte, as sort() without a comparator compares them
Digits(n) ==
  IF n >= 100 THEN <<n \div 100, (n \div 10) % 10, n % 10>>
  ELSE IF n >= 10 THEN <<n \div 10, n % 10>>
  ELSE <<n>>

LexLessEq(a, b) ==
  LET da == Digits(a)
      db == Digits(b)
      same == {k \in 1..3 : k <= Len(da) /\ k <= Len(db) /\ \A i \in 1..k : da[i] = db[i]}
      k == IF same = {} THEN 0 ELSE CHOOSE m \in same : \A o \in same : o <= m
  IN IF k = Len(da) THEN TRUE
     ELSE IF k = Len(db) THEN FALSE
     ELSE da[k + 1] < db[k + 1]

RECURSIVE InsertLex(_, _)
InsertLex(sorted, v) ==
  IF sorted = <<>> THEN <<v>>
  ELSE IF LexLessEq(v, Head(sorted)) THEN <<v>> \o sorted
  ELSE <<Head(sorted)>> \o InsertLex(Tail(sorted), v)

\* values.sort() with the comparator missing: the order of the decimal strings
RECURSIVE SortAsStrings(_)
SortAsStrings(values) ==
  IF values = <<>> THEN <<>>
  ELSE InsertLex(SortAsStrings(Tail(values)), Head(values))

RECURSIVE Insert(_, _)
Insert(sorted, v) ==
  IF sorted = <<>> THEN <<v>>
  ELSE IF v <= Head(sorted) THEN <<v>> \o sorted
  ELSE <<Head(sorted)>> \o Insert(Tail(sorted), v)

\* values.sort((a, b) => a - b)
RECURSIVE SortAscending(_)
SortAscending(values) ==
  IF values = <<>> THEN <<>>
  ELSE Insert(SortAscending(Tail(values)), Head(values))

\* the five sample positions, each coordinate as <<numerator, denominator>>
Samples(p1, p2, p3) ==
  << <<p1[1] + p2[1] + p3[1], 3, p1[2] + p2[2] + p3[2], 3>>,
     <<2 * p1[1] + p2[1] + p3[1], 4, 2 * p1[2] + p2[2] + p3[2], 4>>,
     <<p1[1] + 2 * p2[1] + p3[1], 4, p1[2] + 2 * p2[2] + p3[2], 4>>,
     <<p1[1] + p2[1] + 2 * p3[1], 4, p1[2] + p2[2] + 2 * p3[2], 4>>,
     <<p1[1] + p2[1] + p3[1], 3, p1[2] + p2[2] + p3[2], 3>> >>

\* Math.floor of numerator / denominator, in pixels
FloorPx(num, den) == num \div (den * Unit)

\* idx of a sample: safeX, safeY clamped into the image
SampleIndex(sample, width, height) ==
  LET safeX == Max(0, Min(width - 1, FloorPx(sample[1], sample[2])))
      safeY == Max(0, Min(height - 1, FloorPx(sample[3], sample[4])))
  IN (safeY * width + safeX) * 4

\* the indices read and the value returned
GetMedianColor(p1, p2, p3, image) ==
  LET samples == Samples(p1, p2, p3)
      idx == [k \in 1..5 |-> SampleIndex(samples[k], image.w, image.h)]
      rs == SortAscending([k \in 1..5 |-> DataAt(image, idx[k])])
      gs == SortAscending([k \in 1..5 |-> DataAt(image, idx[k] + 1)])
      bs == SortAscending([k \in 1..5 |-> DataAt(image, idx[k] + 2)])
  IN [reads |-> idx,
      color |-> [r |-> rs[3], g |-> gs[3], b |-> bs[3],
                 cx |-> FloorPx(samples[1][1], 3), cy |-> FloorPx(samples[1][3], 3)]]

\* the images and the triangles the function is followed on
ColorImages ==
  {[w |-> s[1], h |-> s[2], seed |-> seed] :
     s \in {<<1, 1>>, <<3, 2>>, <<4, 4>>}, seed \in {0, 37, 101}}

Vertices(image) ==
  {0, Px(image.w) \div 2, Px(image.w)} \X {0, Px(image.h) \div 2, Px(image.h)}

InitColor ==
  /\ LifeIdle
  /\ AnimIdle
  /\ GeomIdle
  /\ LoadIdle
  /\ KeyIdle
  /\ cImage \in ColorImages
  /\ cTriangle \in Vertices(cImage) \X Vertices(cImage) \X Vertices(cImage)
  /\ cReads = <<>>
  /\ cColor = [r |-> 0, g |-> 0, b |-> 0, cx |-> 0, cy |-> 0]
  /\ cStage = "call"

\* getMedianColor(p1, p2, p3, data, width, height)
ColorCall ==
  /\ cStage = "call"
  /\ LET out == GetMedianColor(cTriangle[1], cTriangle[2], cTriangle[3], cImage)
     IN /\ cReads' = out.reads
        /\ cColor' = out.color
  /\ cStage' = "returned"
  /\ UNCHANGED <<cImage, cTriangle, lifeVars, animVars, geomVars, loadVars, keyVars>>

NextColor == ColorCall

SpecColor == InitColor /\ [][NextColor]_vars

\* ------------------------------------------------------------------------
\* Calls of addPoint with nearby points          (part_000 lines 126-136)
\* ------------------------------------------------------------------------
\* coordinates around x = 1.0, y = 1.0 (in units of 1 / Unit pixel), as the jittered
\* fill points of two neighbouring cells can have them
KeyCoordinates == {61, 64, 67, 70}

InitKey ==
  /\ LifeIdle
  /\ AnimIdle
  /\ GeomIdle
  /\ LoadIdle
  /\ ColorIdle
  /\ kPoints = NoPoints
  /\ kAsked = {}

\* addPoint(x, y)
AddPointCall ==
  \E x \in KeyCoordinates : \E y \in KeyCoordinates :
    /\ Cardinality(kAsked) < MaxCalls
    /\ kPoints' = AddPoint(kPoints, x, y)
    /\ kAsked' = kAsked \cup {<<x, y>>}
    /\ UNCHANGED <<lifeVars, animVars, geomVars, loadVars, colorVars>>

NextKey == AddPointCall

SpecKey == InitKey /\ [][NextKey]_vars

\* ------------------------------------------------------------------------
\* Properties of addPoint (SpecKey)
\* ------------------------------------------------------------------------
\* the Euclidean distance of p and q is at least 0.1 pixel
AtLeastOneTenthApart(p, q) == 100 * Dist2(p, q) >= Unit * Unit

\* C27: a point addPoint was called with and did not store has the key of a stored
\* point only if it is less than 0.1 away from that point: points at least 0.1
\* apart are not merged
C27_DistantPointsNotMerged ==
  \A q \in kAsked \ Range(kPoints.points) :
    \A p \in Range(kPoints.points) :
      Key(p[1], p[2]) = Key(q[1], q[2]) => ~AtLeastOneTenthApart(p, q)

\* ------------------------------------------------------------------------
\* Properties of getMedianColor (SpecColor)
\* ------------------------------------------------------------------------
\* the values of one channel at the five indices read
ChannelReads(offset) == [k \in 1..5 |-> DataAt(cImage, cReads[k] + offset)]

\* v is a byte, one of the five values, with at least three of them <= v and at
\* least three >= v
IsMedianOfFive(v, values) ==
  /\ v \in 0..255
  /\ \E k \in 1..5 : values[k] = v
  /\ Cardinality({k \in 1..5 : values[k] <= v}) >= 3
  /\ Cardinality({k \in 1..5 : values[k] >= v}) >= 3

\* C14: five pixels inside the image are read, and each channel returned is the
\* third smallest of the five values of that channel
C14_MedianOfFiveSamples ==
  cStage = "returned"
    => /\ Len(cReads) = 5
       /\ \A k \in 1..5 : cReads[k] \in {4 * px : px \in 0..(cImage.w * cImage.h - 1)}
       /\ IsMedianOfFive(cColor.r, ChannelReads(0))
       /\ IsMedianOfFive(cColor.g, ChannelReads(1))
       /\ IsMedianOfFive(cColor.b, ChannelReads(2))

\* a triangle with a vertex in the corner (width, height): a sample is clamped to
\* the last pixel, and the five red values are not all the same
C14_Witness ==
  /\ cStage = "returned"
  /\ cTriangle[1] = <<Px(cImage.w), Px(cImage.h)>>
  /\ \E k \in 1..5 : cReads[k] = 4 * (cImage.w * cImage.h - 1)
  /\ Cardinality({ChannelReads(0)[k] : k \in 1..5}) >= 3
  /\ cColor.r # ChannelReads(0)[1]

\* ------------------------------------------------------------------------
\* Properties of the component (Spec)
\* ------------------------------------------------------------------------
\* nothing is pending: no image load, no stage timeout, no animation frame
Quiescent == loads = {} /\ timers = <<>> /\ frames = <<>>

\* the points a run's sampler starts from, once its image has loaded
RunPointSet(r) == BorderPoints(runs[r].w, runs[r].h, runs[r].quality).points

\* C1: once a newer run has started, an older run executes no further pipeline
\* stage, writes none of the shared triangles / edge field / points / image, and
\* renders no further frame
C1_SupersededRunDoesNothing == staleActs = {}

\* C2: once every pending callback has run and the latest run has played to its
\* end, the Complete frame on the canvas is the latest run's: it shows the mesh of
\* the most recently committed image and quality
C2_LatestRunHasTheLastWord ==
  (Quiescent /\ canvas.phase = "Complete" /\ runs[Latest].st = "complete")
    => (canvas.run = Latest /\ canvas.drew = {<<"triangles", Latest>>})

\* C5: Complete is absorbing: a playback that rendered Complete has no frame
\* requested and stays complete, and the status leaves the completion label only
\* by a step of a run newer than the one that rendered Complete
C5_CompleteIsAbsorbing ==
  [][/\ \A r \in 1..Len(runs) :
          runs[r].st = "complete"
            => (runs'[r].st = "complete" /\ runs'[r].phase = "Complete"
                /\ \A i \in 1..Len(frames') : frames'[i][2] # r)
     /\ (status = "complete" /\ status' # "complete")
          => \E r \in 1..Len(runs) : r > canvas.run /\ runs'[r] # runs[r]]_vars

\* C7: a run in which a Delaunator.from call raised (in the refinement loop or in
\* runTriangulation) ended with the error status, started no animation and did
\* not store triangles
C7_ThrowEndsInErrorStatus ==
  \A r \in 1..Len(runs) :
    runs[r].threw => (runs[r].st = "error" /\ trianglesRef # r)

\* C8: a run whose point set is degenerate (fewer than 3 distinct points, or all
\* on one line, as when the height is floored to 0) and that got its drawing
\* context ends in the error status, without an animation
C8_DegenerateEndsInErrorStatus ==
  \A r \in 1..Len(runs) :
    (runs[r].st \notin PendingStages \cup {"aborted"} /\ Degenerate(RunPointSet(r)))
      => runs[r].st = "error"

\* C9: the edge field, the points and the triangles a frame paints were all
\* computed by the run whose playback the frame belongs to
C9_FramePaintsOwnArtifacts ==
  \A d \in canvas.drew :
    d[1] \in {"sobel", "points", "triangles"} => d[2] = canvas.run

\* the stage a run may enter from a stage: the chain of timeouts of processImage and
\* runTriangulation, the edge stage being skipped at quality 0, and the early stops
StageSteps(quality) ==
  {<<"loading", "read">>, <<"sobel", "tri">>, <<"tri", "anim">>, <<"anim", "complete">>,
   <<"read", "aborted">>, <<"read", "crashed">>, <<"sobel", "crashed">>,
   <<"tri", "error">>, <<"tri", "aborted">>}
  \cup (IF quality > 0 THEN {<<"read", "sobel">>} ELSE {<<"read", "tri">>})

\* the callbacks of run r that are waiting to execute, as <<kind, stage>>
PendingOf(r) ==
  (IF r \in loads THEN {<<"load", "loading">>} ELSE {})
  \cup {<<"timer", timers[i][2]>> : i \in {j \in 1..Len(timers) : timers[j][1] = r}}
  \cup {<<"frame", "anim">> : i \in {j \in 1..Len(frames) : frames[j][2] = r}}

\* C19: a run passes through its stages in the order read, edge field with sampling
\* and refinement, triangulation, animation; at any time at most one stage of the
\* run is waiting to execute and it is the stage the run has reached, so a stage
\* starts only after the previous one has finished; each stage finds the output of
\* the stages before it; and the first animation tick of a run comes after the run
\* has stored its triangles
C19_StagesInOrder ==
  [][\A r \in 1..Len(runs) :
       /\ runs'[r].st # runs[r].st
            => <<runs[r].st, runs'[r].st>> \in StageSteps(runs[r].quality)
       /\ Cardinality(PendingOf(r)') <= 1
       /\ \A c \in PendingOf(r)' : c[2] = runs'[r].st
       /\ runs'[r].st \in {"sobel", "tri", "anim"}
            => (runs'[r].w > 0 /\ runs'[r].h > 0 /\ Len(runs'[r].ps.points) >= 4)
       /\ (runs'[r].st = "tri" /\ runs'[r].quality > 0)
            => (sobelRef' # 0 /\ pointsRef' # 0)
       /\ (runs[r].startTime = Null /\ runs'[r].startTime # Null)
            => (runs[r].st = "anim" /\ runs[r].shown.tri = r /\ trianglesRef # 0)]_vars

\* a run at quality > 0 went through all four stages and its first animation tick
\* has run
C19_Witness ==
  \E r \in 1..Len(runs) :
    /\ runs[r].quality > 0
    /\ runs[r].st = "anim"
    /\ runs[r].startTime # Null
    /\ runs[r].shown.tri = r

\* C28: at most one animation-frame request is pending, and animationRef holds its
\* id (so that cancelling animationRef.current leaves no frame to render)
C28_OneFramePending ==
  /\ Len(frames) <= 1
  /\ \A i \in 1..Len(frames) : frames[i][1] = animationRef

\* C18: when the only run of a mount stopped because no context or no canvas was
\* found, the status, the stored triangles, the edge field, the points and the
\* pending animation are as they were at mount, before the run
C18_AbortChangesNothing ==
  (Len(runs) = 1 /\ runs[1].st = "aborted")
    => /\ status = "processing"
       /\ trianglesRef = 0
       /\ sobelRef = 0
       /\ pointsRef = 0
       /\ frames = <<>>
       /\ animationRef = 0


\* ------------------------------------------------------------------------
\* Properties of one playback
\* ------------------------------------------------------------------------
BeforeComplete ==
  {"SourceImage", "EdgeVisualization", "PointCloud", "Wireframe", "ColorFill",
   "EdgeFadeOut"}

\* no gap between two consecutive ticks exceeds the shortest phase, 1500 / speed
GapsWithinShortestPhase == aMaxGap * aSpeed[1] <= PHASE_IMAGE * aSpeed[2]

\* C3 (as claimed): whatever the gaps between ticks of non-decreasing timestamps,
\* every phase before Complete has been rendered by the time Complete is rendered.
C3_NoPhaseSkipped == aPhase = "Complete" => BeforeComplete \subseteq aSeen

\* C3 (amended): when no two consecutive ticks are further apart than the shortest
\* phase lasts (1500 ms / speed), every phase before Complete has been rendered by
\* the time Complete is rendered.
C3_NoPhaseSkippedWithinGap ==
  (aPhase = "Complete" /\ GapsWithinShortestPhase) => BeforeComplete \subseteq aSeen

C3_Witness ==
  /\ aPhase = "Complete"
  /\ GapsWithinShortestPhase
  /\ aMaxGap * aSpeed[1] = PHASE_IMAGE * aSpeed[2]

\* C4: with non-decreasing timestamps no tick renders a phase that comes earlier
\* in the fixed order than the phase its predecessor rendered.
C4_PhaseNeverRegresses == ~aRegress

C4_Witness == aPhase = "Complete" /\ BeforeComplete \subseteq aSeen /\ aStart > 0

\* C6: whenever a tick computes a progress value, it lies in [0, 1], for any
\* timestamps (decreasing ones included) and each speed.
C6_ProgressInUnitInterval ==
  aPhase \in ProgressPhases =>
    /\ aProgress[2] > 0
    /\ 0 <= aProgress[1]
    /\ aProgress[1] <= aProgress[2]

C6_Witness ==
  /\ aPhase = "ColorFill"
  /\ 0 < aProgress[1]
  /\ aProgress[1] < aProgress[2]
  /\ aClock < aStart + 5000
  /\ "Complete" \notin aSeen
  /\ "EdgeFadeOut" \in aSeen

\* C20: after every tick, with elapsed = timestamp - startTime and a speed s > 0,
\* the phase rendered is the first of the fixed order whose cumulative end
\* (1500, 3500, 5500, 8000, 10500, 12500 ms, each divided by s) is strictly
\* greater than elapsed, and it is Complete exactly when elapsed >= 12500 / s
C20_PhaseIsFirstUnfinished ==
  aClock # Null =>
    LET elapsed == aClock - aStart
        ends == <<1500, 3500, 5500, 8000, 10500, 12500>>
        unfinished == {i \in 1..6 : ends[i] * aSpeed[2] > elapsed * aSpeed[1]}
    IN /\ aSpeed[1] > 0 /\ aSpeed[2] > 0
       /\ \A i \in unfinished :
            (\A j \in unfinished : i <= j) => aPhase = Phases[i]
       /\ aPhase = "Complete" <=> elapsed * aSpeed[1] >= 12500 * aSpeed[2]

\* a tick exactly at the cumulative end of the second phase, at a speed other than
\* 1: the third phase is rendered
C20_Witness ==
  /\ aClock # Null
  /\ aSpeed # <<1, 1>>
  /\ (aClock - aStart) * aSpeed[1] = 3500 * aSpeed[2]
  /\ aPhase = "PointCloud"

\* C21: the first tick of a playback sets the start time to its timestamp, and no
\* later tick changes the start time, whatever the first timestamp is (0 included)
C21_StartTimeLatchedOnce ==
  [][/\ aClock = Null => aStart' = aClock'
     /\ aClock # Null => aStart' = aStart]_vars

\* C22: a playback that was started and is never cancelled, whose requested frames
\* are all delivered with timestamps that keep growing, eventually renders Complete
\* and from then on requests no frame
C22_EventuallyCompleteAndQuiet == <>[](aPhase = "Complete" /\ ~aPending)

\* the slowest playback rendered every phase, then Complete, and requests nothing
C22_Witness ==
  /\ aSpeed = <<1, 2>>
  /\ aPhase = "Complete"
  /\ ~aPending
  /\ BeforeComplete \subseteq aSeen

====
